---------------------------- MODULE Spec2Model ----------------------------
(***************************************************************************)
(* A model of snkit/simplify.py: the network simplification pipeline       *)
(* simplify_network_from_gdf and the stages it runs (add_endpoints,        *)
(* add_ids, add_topology, drop_hanging_nodes, merge_2, reset_ids,          *)
(* logicCheck, quickFix), together with clean_roundabouts,                 *)
(* split_edges_at_nodes, split_edges_at_nodes_pyg and add_degree.          *)
(*                                                                         *)
(* Tables (pandas DataFrames) are functions over 0..n-1, the row           *)
(* positions; rows are records whose fields are the columns.  Geometries   *)
(* are exact: a point is a pair of integers (thousandths of a degree), a   *)
(* line is its sequence of vertices, and distances are compared as exact   *)
(* fractions of squared lengths.                                           *)
(***************************************************************************)
EXTENDS Integers, Sequences, FiniteSets, TLC

VARIABLES
    pc,           \* the statement of the pipeline (or of merge_2) that runs next
    net,          \* the Network the pipeline holds: [nodes, edges]
    out,          \* what the run has printed: the diagnostics
    arg,          \* the Network object the last stage was given, as it is after the call
    crIn,         \* the Network clean_roundabouts was given (history)
    cr,           \* clean_roundabouts: its locals
    splitIn,      \* the Network the edge splitter was given (history)
    resetIn,      \* the Network reset_ids was given (history)
    topoIn,       \* the Network add_topology was given (history)
    dhnIn,        \* the Network drop_hanging_nodes was given (history)
    m2In,         \* the Network merge_2 was given (history)
    nod,          \* merge_2: nod, the node table it works on (deg is a view of nod.degree)
    edg,          \* merge_2: edg, the edge table it works on
    n2,           \* merge_2: n2, the pending set of degree-2 node ids
    eIDtoRemove,  \* merge_2: the ids of the edges to delete in the cleanup
    loc,          \* merge_2: the locals of the contraction attempt in progress
    last          \* merge_2: how the last contraction attempt ended

vars == <<pc, net, out, arg, crIn, cr, splitIn, resetIn, topoIn, dhnIn, m2In, nod, edg, n2, eIDtoRemove, loc, last>>

(***************************************************************************)
(* Bounds of the model.                                                    *)
(***************************************************************************)
MaxEdges == 7

MaxTopoEdges == 2

MaxTopoNodes == 3

MaxFairEdges == 3

MaxRoundEdges == 4

MaxSplitNodes == 3

MaxFrontEdges == 5

MaxHangEdges == 3

(***************************************************************************)
(* Tables.                                                                 *)
(***************************************************************************)
Size(t) == Cardinality(DOMAIN t)

Rows(t) == 0 .. (Size(t) - 1)

\* A table from a sequence of rows (reset_index(drop=True): positions 0..n-1).
FromSeq(s) == [i \in 0 .. (Len(s) - 1) |-> s[i + 1]]

ToSeq(t) == [i \in 1 .. Size(t) |-> t[i - 1]]

EmptyTable == FromSeq(<<>>)

\* The column col of table t as a sequence.
Column(t, col) == [i \in 1 .. Size(t) |-> t[i - 1][col]]

HasColumn(t, col) == \A i \in Rows(t) : col \in DOMAIN t[i]

\* df.loc[mask].reset_index(drop=True): the rows at the positions in keep, in order.
RECURSIVE KeepSeq(_, _, _)
KeepSeq(t, keep, i) ==
    IF i >= Size(t) THEN <<>>
    ELSE (IF i \in keep THEN <<t[i]>> ELSE <<>>) \o KeepSeq(t, keep, i + 1)

KeepRows(t, keep) == FromSeq(KeepSeq(t, keep, 0))

\* df[col] = values (values a function over the rows).
SetColumn(t, col, values) ==
    [i \in Rows(t) |-> (col :> values[i]) @@ t[i]]

SeqToSet(s) == {s[i] : i \in 1 .. Len(s)}

MaxOf(S) == CHOOSE x \in S : \A y \in S : y <= x

(***************************************************************************)
(* Geometry: what the code asks of pygeos.                                 *)
(***************************************************************************)
Pt(x, y) == <<4 * x, 4 * y>>

Sub(p, q) == <<p[1] - q[1], p[2] - q[2]>>

Dot(u, v) == u[1] * v[1] + u[2] * v[2]

Cross(u, v) == u[1] * v[2] - u[2] * v[1]

\* Fractions <<numerator, denominator>>, denominator > 0.
FracLess(f, g) == f[1] * g[2] < g[1] * f[2]

FracLeq(f, g) == f[1] * g[2] <= g[1] * f[2]

\* The squared distance of point p to the segment a-b.
SegDist2(p, a, b) ==
    LET ab == Sub(b, a)
        ap == Sub(p, a)
        t  == Dot(ap, ab)
        l2 == Dot(ab, ab)
    IN  IF l2 = 0 \/ t <= 0 THEN <<Dot(ap, ap), 1>>
        ELSE IF t >= l2 THEN <<Dot(Sub(p, b), Sub(p, b)), 1>>
        ELSE <<Cross(ab, ap) * Cross(ab, ap), l2>>

\* pygeos.distance(point, line), squared: the least over the line's segments.
distance(p, line) ==
    LET ds == {SegDist2(p, line[i], line[i + 1]) : i \in 1 .. (Len(line) - 1)}
    IN  CHOOSE d \in ds : \A e \in ds : FracLeq(d, e)

\* The predicate 'intersects' of a point and a line.
intersects(p, line) == distance(p, line)[1] = 0

\* pygeos.STRtree(geoms).query(p, predicate='intersects'): the positions of the
\* geometries of the indexed table that the point lies on.
query(sindex, p) == {i \in Rows(sindex) : intersects(p, sindex[i].geometry)}

\* line_endpoints: the first and the last vertex.
line_endpoints(line) == <<line[1], line[Len(line)]>>

\* floor and ceiling of the square root of a natural number.
FloorSqrt(n) == CHOOSE r \in 0 .. n : r * r <= n /\ (r + 1) * (r + 1) > n

CeilSqrt(n) == IF FloorSqrt(n) * FloorSqrt(n) = n THEN FloorSqrt(n) ELSE FloorSqrt(n) + 1

RECURSIVE SumSeq(_)
SumSeq(s) == IF s = <<>> THEN 0 ELSE Head(s) + SumSeq(Tail(s))

SegLen2(line) ==
    [i \in 1 .. (Len(line) - 1) |-> Dot(Sub(line[i + 1], line[i]), Sub(line[i + 1], line[i]))]

\* pygeos.measurement.length(line) < t, for an integer t.  The sum of the
\* segments' lengths is compared through the floors and ceilings of their
\* square roots, which decides the comparison for every line of the model
\* (a line of one segment is compared exactly).
LengthBelow(line, t) ==
    LET s2 == SegLen2(line)
    IN  IF Len(s2) = 1 THEN s2[1] < t * t
        ELSE SumSeq([i \in 1 .. Len(s2) |-> CeilSqrt(s2[i])]) < t

(***************************************************************************)
(* The inputs: the edge table is any selection of at most MaxEdges of the  *)
(* lines below (at least one), in this order.  The lines lie on a 3 x 3 grid of step      *)
(* 0.004: a unit segment is shorter than the hanging-node tolerance 0.005, *)
(* every other line is longer.                                             *)
(***************************************************************************)
Lines ==
    << <<Pt(0, 1), Pt(2, 1), Pt(2, 0), Pt(0, 1)>>,   \* a closed ring through (1,1)
       <<Pt(2, 1), Pt(0, 1)>>,                       \* a straight line through (1,1)
       <<Pt(0, 1), Pt(0, 0)>>,
       <<Pt(0, 0), Pt(1, 1)>>,
       <<Pt(1, 1), Pt(2, 2)>>,
       <<Pt(0, 1), Pt(1, 2)>>,
       <<Pt(0, 0), Pt(1, 0), Pt(1, 1)>>,
       <<Pt(1, 2), Pt(2, 2)>>,
       <<Pt(2, 2), Pt(2, 1)>>,
       <<Pt(1, 1), Pt(2, 0)>>,
       <<Pt(2, 0), Pt(0, 0)>> >>

RECURSIVE SortedSeq(_)
SortedSeq(S) ==
    IF S = {} THEN <<>>
    ELSE LET m == CHOOSE x \in S : \A y \in S : x <= y
         IN  <<m>> \o SortedSeq(S \ {m})

\* The edge tables given to the pipeline: columns osm_id and geometry.
InputEdges ==
    {FromSeq([i \in 1 .. Len(SortedSeq(S)) |->
                 [osm_id |-> SortedSeq(S)[i], geometry |-> Lines[SortedSeq(S)[i]]]]) :
        S \in {T \in SUBSET (1 .. Len(Lines)) : T # {} /\ Cardinality(T) <= MaxEdges}}

\* Network(nodes=None, edges=None): a missing table is an empty DataFrame.
Network(nodes, edges) == [nodes |-> nodes, edges |-> edges]

NoNetwork == Network(EmptyTable, EmptyTable)

(***************************************************************************)
(* add_endpoints, get_endpoints, concat_dedup.                             *)
(***************************************************************************)
\* get_endpoints: for every edge its first and its last vertex, in row order.
RECURSIVE EndpointSeq(_, _)
EndpointSeq(edges, i) ==
    IF i >= Size(edges) THEN <<>>
    ELSE <<line_endpoints(edges[i].geometry)[1], line_endpoints(edges[i].geometry)[2]>>
         \o EndpointSeq(edges, i + 1)

get_endpoints(network) ==
    FromSeq([i \in 1 .. Len(EndpointSeq(network.edges, 0)) |->
                [geometry |-> EndpointSeq(network.edges, 0)[i]]])

\* drop_duplicate_geometries(keep='first'): the rows whose geometry no earlier row has.
drop_duplicate_geometries(gdf) ==
    KeepRows(gdf, {i \in Rows(gdf) : \A j \in 0 .. (i - 1) : gdf[j].geometry # gdf[i].geometry})

concat_dedup(a, b) == drop_duplicate_geometries(FromSeq(ToSeq(a) \o ToSeq(b)))

add_endpoints(network) ==
    Network(concat_dedup(network.nodes, get_endpoints(network)), network.edges)

(***************************************************************************)
(* add_ids.                                                                *)
(***************************************************************************)
add_ids(network) ==
    Network(SetColumn(network.nodes, "id", [i \in Rows(network.nodes) |-> i]),
            SetColumn(network.edges, "id", [i \in Rows(network.edges) |-> i]))

(***************************************************************************)
(* add_topology and nearest.                                               *)
(***************************************************************************)
\* nearest(geom, gdf, sindex): sindex.query(geom) without a predicate gives the
\* nodes whose bounding box meets the point's, that is the nodes at the point;
\* min() over them takes one at the least distance (all are at distance 0, and
\* the order of the query result decides which).  No match: min() raises.
nearest(p, nodes) == {j \in Rows(nodes) : nodes[j].geometry = p}

\* The ids add_topology may append to from_ids (end = 1) or to_ids (end = 2)
\* for the edge at position i: -1 when nearest_node raised.
EndChoices(network, i, end) ==
    LET m == nearest(line_endpoints(network.edges[i].geometry)[end], network.nodes)
    IN  IF m = {} THEN {-1} ELSE {network.nodes[j].id : j \in m}

\* Every list of ids the loop over the edges can build.
RECURSIVE IdLists(_, _, _)
IdLists(network, i, end) ==
    IF i >= Size(network.edges) THEN {<<>>}
    ELSE {<<x>> \o r : x \in EndChoices(network, i, end), r \in IdLists(network, i + 1, end)}

\* bugs: the id of the edge, appended once for every endpoint that did not resolve.
RECURSIVE BugList(_, _, _, _)
BugList(edges, from_ids, to_ids, i) ==
    IF i >= Size(edges) THEN <<>>
    ELSE (IF from_ids[i + 1] = -1 THEN <<edges[i].id>> ELSE <<>>)
         \o (IF to_ids[i + 1] = -1 THEN <<edges[i].id>> ELSE <<>>)
         \o BugList(edges, from_ids, to_ids, i + 1)

\* The count add_topology prints: len(bugs).
TopologyReport(bugs) == Len(bugs)

\* A faulty variant of TopologyEdges: the columns are written, no row is dropped.
TopologyEdgesKeepsAll(edges, from_ids, to_ids, bugs) ==
    LET e1 == SetColumn(edges, "from_id", [i \in Rows(edges) |-> from_ids[i + 1]])
    IN  SetColumn(e1, "to_id", [i \in Rows(edges) |-> to_ids[i + 1]])

\* edges.loc[~(edges.id.isin(list(bugs)))].reset_index(drop=True)
TopologyEdges(edges, from_ids, to_ids, bugs) ==
    LET e1 == SetColumn(edges, "from_id", [i \in Rows(edges) |-> from_ids[i + 1]])
        e2 == SetColumn(e1, "to_id", [i \in Rows(edges) |-> to_ids[i + 1]])
    IN  KeepRows(e2, {i \in Rows(e2) : e2[i].id \notin SeqToSet(bugs)})

(***************************************************************************)
(* calculate_degree and drop_hanging_nodes.                                *)
(***************************************************************************)
\* np.bincount(ids, None, ndC): the array is as long as the largest id needs.
BinLength(ids, ndC) ==
    IF SeqToSet(ids) # {} /\ MaxOf(SeqToSet(ids)) + 1 > ndC
    THEN MaxOf(SeqToSet(ids)) + 1 ELSE ndC

BinCount(ids, ndC) ==
    [k \in 0 .. (BinLength(ids, ndC) - 1) |-> Cardinality({i \in 1 .. Len(ids) : ids[i] = k})]

\* calculate_degree raises when max() is given an empty column, when bincount
\* is given a negative id, and when the two counts differ in length.
CalculateDegreeRaises(network) ==
    LET f == Column(network.edges, "from_id")
        t == Column(network.edges, "to_id")
        ndC == Size(network.nodes)
    IN  \/ Size(network.edges) = 0
        \/ \E i \in 1 .. Len(f) : f[i] < 0 \/ t[i] < 0
        \/ BinLength(f, ndC) # BinLength(t, ndC)

calculate_degree(network) ==
    LET f == Column(network.edges, "from_id")
        t == Column(network.edges, "to_id")
        ndC == Size(network.nodes)
    IN  [k \in 0 .. (BinLength(f, ndC) - 1) |-> BinCount(f, ndC)[k] + BinCount(t, ndC)[k]]

\* add_degree (lines 522-524): the degree column written into the node table.
add_degree(network) ==
    Network(SetColumn(network.nodes, "degree", calculate_degree(network)), network.edges)

\* The hanging-node tolerance, in thousandths of a degree.
tolerance == 5

\* hangNodes: the positions of the nodes of degree 1.
hangNodes(deg) == {k \in DOMAIN deg : deg[k] = 1}

\* np.sort(eInd[0]): the positions of the edges whose to_id is a hanging node,
\* then of those whose from_id is one, sorted; an edge with both is there twice.
RECURSIVE degEd(_, _, _)
degEd(ed, hang, i) ==
    IF i >= Size(ed) THEN <<>>
    ELSE (IF ed[i].to_id \in hang THEN <<i>> ELSE <<>>)
         \o (IF ed[i].from_id \in hang THEN <<i>> ELSE <<>>)
         \o degEd(ed, hang, i + 1)

\* One pass of the loop body (lines 546-558) for the edge d, on the live deg.
HangStep(d, st) ==
    LET s1 == IF LengthBelow(d.geometry, tolerance)
              THEN [drop |-> Append(st.drop, d.id),
                    deg  |-> [[st.deg EXCEPT ![d.from_id] = @ - 1] EXCEPT ![d.to_id] = @ - 1]]
              ELSE st
    IN  IF s1.deg[d.from_id] = 1 /\ s1.deg[d.to_id] = 1
        THEN [drop |-> Append(s1.drop, d.id),
              deg  |-> [[s1.deg EXCEPT ![d.from_id] = @ - 1] EXCEPT ![d.to_id] = @ - 1]]
        ELSE s1

RECURSIVE HangLoop(_, _, _, _)
HangLoop(ed, list, k, st) ==
    IF k > Len(list) THEN st
    ELSE HangLoop(ed, list, k + 1, HangStep(ed[list[k]], st))

\* The degrees drop_hanging_nodes starts from.
HangDegree(network) ==
    IF HasColumn(network.nodes, "degree") /\ Size(network.nodes) > 0
    THEN [k \in Rows(network.nodes) |-> network.nodes[k].degree]
    ELSE calculate_degree(network)

DropHangingRaises(network) ==
    ~(HasColumn(network.nodes, "degree") /\ Size(network.nodes) > 0)
    /\ CalculateDegreeRaises(network)

HangResult(network) ==
    LET deg == HangDegree(network)
    IN  HangLoop(network.edges, degEd(network.edges, hangNodes(deg), 0), 1,
                 [drop |-> <<>>, deg |-> deg])

\* The caller's Network after the call.  With a degree column in the node
\* table, deg is network.nodes['degree'].to_numpy() (line 533), the column's own
\* buffer, and the loop's deg[...] -= 1 (lines 551-558) write into it; without
\* one, deg is the new array of calculate_degree.
HangInputAfter(network) ==
    IF HasColumn(network.nodes, "degree") /\ Size(network.nodes) > 0
    THEN Network(SetColumn(network.nodes, "degree", HangResult(network).deg), network.edges)
    ELSE network

drop_hanging_nodes(network) ==
    LET r   == HangResult(network)
        ed  == network.edges
        edg0 == KeepRows(ed, {i \in Rows(ed) : ed[i].id \notin SeqToSet(r.drop)})
    IN  Network(SetColumn(network.nodes, "degree", r.deg),
                SetColumn(edg0, "id", [i \in Rows(edg0) |-> i]))

(***************************************************************************)
(* pygeos.line_merge(pygeos.multilinestrings(lines)): GEOS's LineMerger.   *)
(* The lines are the edges of a graph on their end points; lines are       *)
(* joined through the points where exactly two line ends meet.  The result *)
(* is one LineString exactly when the graph is connected and no point has  *)
(* more than two line ends (a path, or a closed loop).                     *)
(***************************************************************************)
EndPoints(lines) == {lines[i][1] : i \in 1 .. Len(lines)} \cup
                    {lines[i][Len(lines[i])] : i \in 1 .. Len(lines)}

\* The number of line ends at point p (a closed line has both of its ends there).
EndDegree(lines, p) ==
    Cardinality({i \in 1 .. Len(lines) : lines[i][1] = p}) +
    Cardinality({i \in 1 .. Len(lines) : lines[i][Len(lines[i])] = p})

RECURSIVE ReachedPoints(_, _)
ReachedPoints(lines, S) ==
    LET T == S \cup {lines[i][1] : i \in {j \in 1 .. Len(lines) : lines[j][Len(lines[j])] \in S}}
               \cup {lines[i][Len(lines[i])] : i \in {j \in 1 .. Len(lines) : lines[j][1] \in S}}
    IN  IF T = S THEN S ELSE ReachedPoints(lines, T)

\* get_type_id(line_merge(...)) == 1
MergesToOneLine(lines) ==
    /\ Len(lines) > 0
    /\ \A p \in EndPoints(lines) : EndDegree(lines, p) <= 2
    /\ ReachedPoints(lines, {lines[1][1]}) = EndPoints(lines)

PtLess(p, q) == p[1] < q[1] \/ (p[1] = q[1] /\ p[2] < q[2])

Reverse(s) == [i \in 1 .. Len(s) |-> s[Len(s) + 1 - i]]

\* The vertices of the merged line: from the least end point of degree 1 (of a
\* loop: from its least end point), line after line.
RECURSIVE MergeFrom(_, _, _)
MergeFrom(lines, cur, unused) ==
    LET at == {i \in unused : lines[i][1] = cur \/ lines[i][Len(lines[i])] = cur}
    IN  IF at = {} THEN <<>>
        ELSE LET i == CHOOSE x \in at : \A y \in at : x <= y
                 g == IF lines[i][1] = cur THEN lines[i] ELSE Reverse(lines[i])
             IN  Tail(g) \o MergeFrom(lines, g[Len(g)], unused \ {i})

line_merge(lines) ==
    LET ends   == {p \in EndPoints(lines) : EndDegree(lines, p) = 1}
        starts == IF ends = {} THEN EndPoints(lines) ELSE ends
        s      == CHOOSE p \in starts : \A q \in starts : p = q \/ PtLess(p, q)
    IN  <<s>> \o MergeFrom(lines, s, 1 .. Len(lines))

(***************************************************************************)
(* merge_2.                                                                *)
(***************************************************************************)
NoLocals ==
    [nodeID |-> -1, newEdge |-> <<>>, info_first_edge |-> -1, possibly_delete |-> <<>>,
     pos_0_deg |-> <<>>, nextNode1 |-> -1, nextNode2 |-> -1,
     edgePath1 |-> -1, edgePath2 |-> -1]

\* degree2, n2: the ids of the nodes whose degree is 2.
Degree2Ids(nodes) == {nodes[k].id : k \in {j \in Rows(nodes) : nodes[j].degree = 2}}

\* min(..., key = distance(p, match.geometry)) over the rows S of edges: a row
\* at the least distance (the first of them in the order of the set).
NearestEdges(S, p, edges) ==
    {i \in S : \A j \in S :
        FracLeq(distance(p, edges[i].geometry), distance(p, edges[j].geometry))}

\* The pairs (edgePath1, edgePath2) lines 614-620 can take from the query result eID.
FirstEdges(eID, p, edges) ==
    IF Cardinality(eID) > 2
    THEN \* find_closest_2_edges
         {pr \in eID \X eID :
             /\ pr[1] \in NearestEdges(eID, p, edges)
             /\ pr[2] \in NearestEdges(eID \ {edges[pr[1]].id}, p, edges)}
    ELSE \* two pops of the set
         {pr \in eID \X eID : pr[1] # pr[2]}

\* The node at the other end of the edge row e, seen from node n (lines 622, 643).
OtherEnd(e, n) == IF e.from_id = n THEN e.to_id ELSE e.from_id

\* The geometries collected in newEdge (the rows' geometries when appended; a row
\* is rewritten only at the end of an attempt).
NewEdgeLines(edges, l) == [i \in 1 .. Len(l.newEdge) |-> edges[l.newEdge[i]].geometry]

\* Lines 664-669: the rewrite of the first edge.
RewriteFirstEdge(edges, l) ==
    [edges EXCEPT ![l.info_first_edge] =
        [@ EXCEPT !.geometry = line_merge(NewEdgeLines(edges, l)),
                  !.from_id = l.nextNode1,
                  !.to_id = l.nextNode2]]

\* for x in pos_0_deg: deg[x] = 0 (deg is a view of nod.degree).
ZeroDegrees(nodes, ids) ==
    [k \in Rows(nodes) |-> IF k \in SeqToSet(ids) THEN [nodes[k] EXCEPT !.degree = 0] ELSE nodes[k]]

\* A faulty variant of MergeAttempt: the degrees are set to 0 as the nodes are
\* met (the assignments commented out at lines 608, 641 and 656), whatever the
\* outcome of the merge.
MergeAttemptEager(edges, nodes, remove, l) ==
    IF MergesToOneLine(NewEdgeLines(edges, l))
    THEN [merged |-> TRUE,
          edg |-> RewriteFirstEdge(edges, l),
          eIDtoRemove |-> remove \o l.possibly_delete,
          nod |-> ZeroDegrees(nodes, l.pos_0_deg)]
    ELSE [merged |-> FALSE, edg |-> edges, eIDtoRemove |-> remove,
          nod |-> ZeroDegrees(nodes, l.pos_0_deg)]

\* Lines 662-671: what the end of an attempt does to edg, eIDtoRemove and nod.
MergeAttempt(edges, nodes, remove, l) ==
    IF MergesToOneLine(NewEdgeLines(edges, l))
    THEN [merged |-> TRUE,
          edg |-> RewriteFirstEdge(edges, l),
          eIDtoRemove |-> remove \o l.possibly_delete,
          nod |-> ZeroDegrees(nodes, l.pos_0_deg)]
    ELSE [merged |-> FALSE, edg |-> edges, eIDtoRemove |-> remove, nod |-> nodes]

\* Lines 679-683: the cleanup.
CleanupEdges(edges, remove) ==
    KeepRows(edges, {i \in Rows(edges) : edges[i].id \notin SeqToSet(remove)})

\* A faulty variant of CleanupNodes: the nodes of degree 1 are removed as well.
CleanupNodesAboveOne(nodes) ==
    KeepRows(nodes, {k \in Rows(nodes) : nodes[k].degree > 1})

CleanupNodes(nodes) ==
    KeepRows(nodes, {k \in Rows(nodes) : nodes[k].degree > 0})

\* One run of merge_2 as a function of its input: the run in which n2.pop()
\* (line 606) gives the least id of n2 and in which, wherever the sets and
\* the ties of lines 614-620, 636 and 652 leave a choice, the least edge is
\* taken.
LeastOf(S) == CHOOSE x \in S : \A y \in S : x <= y

LeastPair(P) ==
    CHOOSE p \in P : \A q \in P : p[1] < q[1] \/ (p[1] = q[1] /\ p[2] <= q[2])

\* Lines 631-645, to the end of the while loop; spins when min() raises, as
\* except: continue (line 639) takes the same turn again.
RECURSIVE LeastWalk1(_, _, _, _)
LeastWalk1(sindex, nodes, edges, w) ==
    LET l == w.loc
    IN  IF nodes[l.nextNode1].degree # 2 \/ l.nextNode1 \in SeqToSet(l.pos_0_deg)
        THEN w
        ELSE LET eID == query(sindex, nodes[l.nextNode1].geometry) \ {edges[l.edgePath1].id}
             IN  IF eID = {}
                 THEN [w EXCEPT !.spins = TRUE]
                 ELSE LET e == LeastOf(NearestEdges(eID, nodes[l.nextNode2].geometry, edges))
                      IN  LeastWalk1(sindex, nodes, edges,
                             [loc |-> [l EXCEPT
                                         !.edgePath1 = e,
                                         !.pos_0_deg = Append(@, l.nextNode1),
                                         !.nextNode1 = OtherEnd(edges[e], l.nextNode1),
                                         !.newEdge = Append(@, e),
                                         !.possibly_delete = Append(@, edges[e].id)],
                              n2 |-> w.n2 \ {l.nextNode1},
                              spins |-> FALSE])

\* Lines 647-660, to the end of the while loop.
RECURSIVE LeastWalk2(_, _, _, _)
LeastWalk2(sindex, nodes, edges, w) ==
    LET l == w.loc
    IN  IF nodes[l.nextNode2].degree # 2 \/ l.nextNode2 \in SeqToSet(l.pos_0_deg)
        THEN w
        ELSE LET eID == query(sindex, nodes[l.nextNode2].geometry) \ {edges[l.edgePath2].id}
             IN  IF eID = {}
                 THEN [w EXCEPT !.spins = TRUE]
                 ELSE LET e == LeastOf(NearestEdges(eID, nodes[l.nextNode2].geometry, edges))
                      IN  LeastWalk2(sindex, nodes, edges,
                             [loc |-> [l EXCEPT
                                         !.edgePath2 = e,
                                         !.pos_0_deg = Append(@, l.nextNode2),
                                         !.nextNode2 = OtherEnd(edges[e], l.nextNode2),
                                         !.newEdge = Append(@, e),
                                         !.possibly_delete = Append(@, edges[e].id)],
                              n2 |-> w.n2 \ {l.nextNode2},
                              spins |-> FALSE])

\* Lines 601-683: the loop from the state (nodes, edges, pending, remove), and
\* the cleanup; returns is FALSE when a walk spins.
RECURSIVE LeastRun(_, _, _, _, _)
LeastRun(sindex, nodes, edges, pending, remove) ==
    IF pending = {}
    THEN [returns |-> TRUE,
          network |-> Network(CleanupNodes(nodes), CleanupEdges(edges, remove))]
    ELSE LET nodeID == LeastOf(pending)
             rest   == pending \ {nodeID}
             eID    == query(sindex, nodes[nodeID].geometry)
         IN  IF Cardinality(eID) < 2
             THEN LeastRun(sindex, nodes, edges, rest, remove)
             ELSE LET pr == LeastPair(FirstEdges(eID, nodes[nodeID].geometry, edges))
                      nextNode1 == OtherEnd(edges[pr[1]], nodeID)
                      nextNode2 == OtherEnd(edges[pr[2]], nodeID)
                  IN  IF nextNode1 = nextNode2
                      THEN LeastRun(sindex, nodes, edges, rest, remove)
                      ELSE LET w0 == [loc |-> [nodeID |-> nodeID,
                                               newEdge |-> <<pr[1], pr[2]>>,
                                               info_first_edge |-> edges[pr[1]].id,
                                               possibly_delete |-> <<edges[pr[2]].id>>,
                                               pos_0_deg |-> <<nodeID>>,
                                               nextNode1 |-> nextNode1,
                                               nextNode2 |-> nextNode2,
                                               edgePath1 |-> pr[1],
                                               edgePath2 |-> pr[2]],
                                       n2 |-> rest,
                                       spins |-> FALSE]
                               w1 == LeastWalk1(sindex, nodes, edges, w0)
                               w2 == IF w1.spins THEN w1
                                     ELSE LeastWalk2(sindex, nodes, edges, w1)
                           IN  IF w2.spins
                               THEN [returns |-> FALSE, network |-> NoNetwork]
                               ELSE LET r == MergeAttempt(edges, nodes, remove, w2.loc)
                                    IN  LeastRun(sindex, r.nod, r.edg, w2.n2, r.eIDtoRemove)

\* Lines 581-597, then the loop.
Merge2LeastRun(network) ==
    LeastRun(network.edges, network.nodes, network.edges, Degree2Ids(network.nodes), <<>>)

(***************************************************************************)
(* reset_ids, logicCheck, quickFix.                                        *)
(***************************************************************************)
\* id_dict = dict(zip(nodes.id, range(len(nodes)))): a later row wins.
id_dict(nodes) ==
    [k \in {nodes[j].id : j \in Rows(nodes)} |->
        MaxOf({j \in Rows(nodes) : nodes[j].id = k})]

\* A faulty variant of Remap: the masks are taken on the array being rewritten,
\* so a reference already remapped can be remapped again.
RemapTwice(d, x) ==
    LET y == IF x \in DOMAIN d THEN d[x] ELSE x
    IN  IF y \in DOMAIN d THEN d[y] ELSE y

\* nt[to_ids == k] = v for every k: decided on the original value.
Remap(d, x) == IF x \in DOMAIN d THEN d[x] ELSE x

ResetNodes(nodes) == SetColumn(nodes, "id", [k \in Rows(nodes) |-> k])

ResetEdges(nodes, edges) ==
    [i \in Rows(edges) |->
        [edges[i] EXCEPT !.from_id = Remap(id_dict(nodes), @),
                         !.to_id = Remap(id_dict(nodes), @),
                         !.id = i]]

reset_ids(network) ==
    Network(ResetNodes(network.nodes), ResetEdges(network.nodes, network.edges))

NodeIds(nodes) == {nodes[k].id : k \in Rows(nodes)}

\* logicCheck, line 1168: a from_id or to_id beyond the largest node id.
IndexOutOfRange(network) ==
    \E i \in Rows(network.edges) :
        \/ network.edges[i].from_id > MaxOf(NodeIds(network.nodes))
        \/ network.edges[i].to_id > MaxOf(NodeIds(network.nodes))

\* logicCheck, lines 1174-1180: the stored degrees are not the computed ones.
DegreeMismatch(network) ==
    \/ CalculateDegreeRaises(network)
    \/ calculate_degree(network) # [k \in Rows(network.nodes) |-> network.nodes[k].degree]

\* A faulty variant of quickFix: the edges are renumbered, none is removed.
quickFixKeepsAll(network) ==
    Network(network.nodes,
            SetColumn(network.edges, "id", [i \in Rows(network.edges) |-> i]))

\* quickFix: the edges kept (every geometry is one LineString: get_num_geometries is 1).
quickFix(network) ==
    LET e   == network.edges
        rem == {e[i].id : i \in {j \in Rows(e) :
                    \/ e[j].from_id > MaxOf(NodeIds(network.nodes))
                    \/ e[j].to_id > MaxOf(NodeIds(network.nodes))}}
        k   == KeepRows(e, {i \in Rows(e) : e[i].id \notin rem})
    IN  Network(network.nodes, SetColumn(k, "id", [i \in Rows(k) |-> i]))

(***************************************************************************)
(* clean_roundabouts.                                                      *)
(***************************************************************************)
Sign(x) == IF x > 0 THEN 1 ELSE IF x < 0 THEN -1 ELSE 0

\* The point p lies on the segment a-b.
OnSegment(p, a, b) == SegDist2(p, a, b)[1] = 0

\* The segments a-b and c-d have a point in common.
SegmentsMeet(a, b, c, d) ==
    LET d1 == Sign(Cross(Sub(b, a), Sub(c, a)))
        d2 == Sign(Cross(Sub(b, a), Sub(d, a)))
        d3 == Sign(Cross(Sub(d, c), Sub(a, c)))
        d4 == Sign(Cross(Sub(d, c), Sub(b, c)))
    IN  \/ (d1 * d2 < 0 /\ d3 * d4 < 0)
        \/ OnSegment(c, a, b) \/ OnSegment(d, a, b)
        \/ OnSegment(a, c, d) \/ OnSegment(b, c, d)

\* The predicate 'intersects' of two lines.
LinesMeet(g, h) ==
    \E i \in 1 .. (Len(g) - 1), j \in 1 .. (Len(h) - 1) :
        SegmentsMeet(g[i], g[i + 1], h[j], h[j + 1])

\* pygeos.predicates.is_ring: the line is closed and simple.
is_ring(line) ==
    /\ Len(line) >= 4
    /\ line[1] = line[Len(line)]
    /\ \A i, j \in 1 .. (Len(line) - 1) :
          j > i + 1 =>
             IF i = 1 /\ j = Len(line) - 1
             THEN /\ ~OnSegment(line[2], line[j], line[j + 1])
                  /\ ~OnSegment(line[j], line[1], line[2])
             ELSE ~SegmentsMeet(line[i], line[i + 1], line[j], line[j + 1])

\* find_roundabouts: the positions of the rings, in row order.
find_roundabouts(network) ==
    SortedSeq({i \in Rows(network.edges) : is_ring(network.edges[i].geometry)})

\* pygeos.constructive.centroid of a line: the mean of the segments' midpoints
\* weighted by the segments' lengths.  The rings of the model have sides
\* parallel to the axes and their centre on the grid, so the lengths and the
\* quotient are exact.
centroid(line) ==
    LET n     == Len(line) - 1
        len   == [i \in 1 .. n |-> FloorSqrt(SegLen2(line)[i])]
        total == SumSeq(len)
    IN  <<SumSeq([i \in 1 .. n |-> len[i] * (line[i][1] + line[i + 1][1])]) \div (2 * total),
          SumSeq([i \in 1 .. n |-> len[i] * (line[i][2] + line[i + 1][2])]) \div (2 * total)>>

\* _intersects_pyg(geom, gdf, sindex) with the roundabout's own row dropped
\* (lines 400-402): the positions of the other rows whose line the ring meets
\* (the buffer of 1e-9 adds no row on the grid).
edges_intersect(edges, r) ==
    {i \in Rows(edges) \ {r} : LinesMeet(edges[r].geometry, edges[i].geometry)}

Dist2(p, q) == Dot(Sub(p, q), Sub(p, q))

\* Lines 406-420 (and 432-439): the centroid joined to the end of the
\* coordinates that is closer to it; to the last end when neither is closer.
snap_line_to(co_ords, c) ==
    IF Dist2(co_ords[Len(co_ords)], c) > Dist2(co_ords[1], c)
    THEN <<c>> \o co_ords
    ELSE Append(co_ords, c)

\* The position in new_edge of the first entry with this osm_id (lines 426-430).
FirstWithId(new_edge, osm_id) ==
    CHOOSE a \in 1 .. Len(new_edge) :
        /\ new_edge[a].osm_id = osm_id
        /\ \A b \in 1 .. (a - 1) : new_edge[b].osm_id # osm_id

RemoveAt(s, a) == SubSeq(s, 1, a - 1) \o SubSeq(s, a + 1, Len(s))

\* Lines 404-446: one turn of the inner loop, for the intersecting row e and the
\* centroid c of the roundabout.
RoundaboutEdge(edges, c, st, e) ==
    LET edge == edges[e]
    IN  IF edge.osm_id \in SeqToSet(st.new_edge_id)
        THEN LET a == FirstWithId(st.new_edge, edge.osm_id)
                 double_edge == st.new_edge[a]
             IN  [st EXCEPT
                    !.new_edge = Append(RemoveAt(st.new_edge, a),
                                        [osm_id |-> edge.osm_id,
                                         geometry |-> snap_line_to(double_edge.geometry, c)]),
                    !.remove_edge = Append(@, e),
                    !.pending = @ \ {e}]
        ELSE [st EXCEPT
                !.new_edge = Append(@, [osm_id |-> edge.osm_id,
                                        geometry |-> snap_line_to(edge.geometry, c)]),
                !.new_edge_id = Append(@, edge.osm_id),
                !.remove_edge = Append(@, e),
                !.pending = @ \ {e}]

\* Lines 448-451: the rows not removed, then the new rows; reset_index() keeps
\* the old labels in the column index.
RoundaboutTable(edges, st) ==
    LET keep == SortedSeq(Rows(edges) \ SeqToSet(st.remove_edge))
    IN  FromSeq([i \in 1 .. Len(keep) |-> ("index" :> keep[i]) @@ edges[keep[i]]]
                \o [i \in 1 .. Len(st.new_edge) |-> ("index" :> (i - 1)) @@ st.new_edge[i]])

(***************************************************************************)
(* split_edges_at_nodes and its helpers (shapely).                         *)
(***************************************************************************)
\* nodes_intersecting(line, nodes, tolerance): the points of the nodes that lie
\* on the line, in the order of the node table (the buffer of 1e-9 adds no
\* node on the grid).
nodes_intersecting(line, nodes) ==
    LET hit == SortedSeq({k \in Rows(nodes) : intersects(nodes[k].geometry, line)})
    IN  [i \in 1 .. Len(hit) |-> nodes[hit[i]].geometry]

\* nearest_vertex_idx_on_line: min() keeps the first of the nearest vertices.
\* Positions count from 1 here, from 0 in the code.
nearest_vertex_idx_on_line(point, line) ==
    CHOOSE i \in 1 .. Len(line) :
        /\ \A j \in 1 .. Len(line) : Dist2(point, line[i]) <= Dist2(point, line[j])
        /\ \A j \in 1 .. (i - 1) : Dist2(point, line[i]) < Dist2(point, line[j])

InsertBefore(s, i, x) == SubSeq(s, 1, i - 1) \o <<x>> \o SubSeq(s, i, Len(s))

\* add_vertex (lines 907-935).
add_vertex(line, point) ==
    LET v_idx == nearest_vertex_idx_on_line(point, line)
    IN  IF point = line[v_idx] THEN line
        ELSE IF v_idx = 1 THEN InsertBefore(line, 2, point)
        ELSE IF v_idx = Len(line) THEN InsertBefore(line, v_idx, point)
        ELSE IF FracLess(SegDist2(point, line[v_idx], line[v_idx - 1]),
                         SegDist2(point, line[v_idx], line[v_idx + 1]))
             THEN InsertBefore(line, v_idx, point)
             ELSE InsertBefore(line, v_idx + 1, point)

\* snap_line for a MultiPoint (lines 901-904): the points within the tolerance
\* of the line as given, added one after the other.
RECURSIVE AddVertices(_, _, _)
AddVertices(line, points, k) ==
    IF k > Len(points) THEN line
    ELSE AddVertices(add_vertex(line, points[k]), points, k + 1)

snap_line(line, points) ==
    LET near == SortedSeq({k \in 1 .. Len(points) : intersects(points[k], line)})
    IN  AddVertices(line, [i \in 1 .. Len(near) |-> points[near[i]]], 1)

\* The point lies in the interior of the line: on it, and not at an end of an
\* open line (relate_pattern '0********').
InInterior(p, line) ==
    /\ intersects(p, line)
    /\ line[1] # line[Len(line)] => p \notin {line[1], line[Len(line)]}

\* shapely.ops.split of a line by a point (SplitOp._split_line_with_point): the
\* line is cut at the first place where it meets the point.
split_line_with_point(line, p) ==
    IF ~InInterior(p, line) \/ line[1] = p THEN <<line>>
    ELSE LET k == CHOOSE i \in 1 .. (Len(line) - 1) :
                     /\ OnSegment(p, line[i], line[i + 1])
                     /\ \A j \in 1 .. (i - 1) : ~OnSegment(p, line[j], line[j + 1])
         IN  IF p = line[k + 1]
             THEN <<SubSeq(line, 1, k + 1), SubSeq(line, k + 1, Len(line))>>
             ELSE <<Append(SubSeq(line, 1, k), p), <<p>> \o SubSeq(line, k + 1, Len(line))>>

RECURSIVE FlatMapSplit(_, _)
FlatMapSplit(chunks, p) ==
    IF chunks = <<>> THEN <<>>
    ELSE split_line_with_point(Head(chunks), p) \o FlatMapSplit(Tail(chunks), p)

\* SplitOp._split_line_with_multipoint: every chunk is cut at every point in turn.
RECURSIVE split(_, _, _)
split(chunks, points, k) ==
    IF k > Len(points) THEN chunks
    ELSE split(FlatMapSplit(chunks, points[k]), points, k + 1)

\* split_line (lines 889-893); split_edge_at_points keeps the edge whole when
\* there is no point (the ValueError of an empty collection, lines 882-884).
split_line(line, points) ==
    IF points = <<>> THEN <<line>>
    ELSE split(<<snap_line(line, points)>>, points, 1)

\* split_edge_at_points: one row for each segment, with the edge's attributes.
split_edge_at_points(edge, points) ==
    LET segments == split_line(edge.geometry, points)
    IN  [i \in 1 .. Len(segments) |-> [edge EXCEPT !.geometry = segments[i]]]

RECURSIVE SplitRows(_, _)
SplitRows(network, i) ==
    IF i >= Size(network.edges) THEN <<>>
    ELSE split_edge_at_points(network.edges[i],
                              nodes_intersecting(network.edges[i].geometry, network.nodes))
         \o SplitRows(network, i + 1)

split_edges_at_nodes(network) == Network(network.nodes, FromSeq(SplitRows(network, 0)))

(***************************************************************************)
(* split_edges_at_nodes_pyg.  The geometry of a row is the sequence of its  *)
(* coordinates; a row whose geometry is a MultiLineString has the          *)
(* coordinates of all its lines, in order, and carries in the column parts *)
(* the number of coordinates of each line.  A row without that column is a *)
(* LineString.                                                             *)
(***************************************************************************)
RECURSIVE CutParts(_, _)
CutParts(coords, parts) ==
    IF parts = <<>> THEN <<>>
    ELSE <<SubSeq(coords, 1, Head(parts))>>
         \o CutParts(SubSeq(coords, Head(parts) + 1, Len(coords)), Tail(parts))

\* The lines of a row's geometry.
geoms(row) ==
    IF "parts" \in DOMAIN row THEN CutParts(row.geometry, row.parts) ELSE <<row.geometry>>

\* pygeos.coordinates.get_coordinates: the coordinates of all the lines, in order.
get_coordinates(row) == row.geometry

\* The segments of a row's lines.
Segments(row) ==
    UNION {{<<geoms(row)[n][i], geoms(row)[n][i + 1]>> : i \in 1 .. (Len(geoms(row)[n]) - 1)} :
              n \in 1 .. Len(geoms(row))}

\* The coordinates of the intersection of the segments a-b and c-d: the point
\* where they cross (the lines of the model cross at grid points), or their
\* ends that lie on the other segment.
SegmentPoints(a, b, c, d) ==
    LET ab  == Sub(b, a)
        cd  == Sub(d, c)
        den == Cross(ab, cd)
        num == Cross(Sub(c, a), cd)
    IN  IF /\ Sign(Cross(ab, Sub(c, a))) * Sign(Cross(ab, Sub(d, a))) < 0
           /\ Sign(Cross(cd, Sub(a, c))) * Sign(Cross(cd, Sub(b, c))) < 0
        THEN {<<a[1] + (num * ab[1]) \div den, a[2] + (num * ab[2]) \div den>>}
        ELSE {q \in {a, b, c, d} : OnSegment(q, a, b) /\ OnSegment(q, c, d)}

\* pygeos.set_operations.intersection(edge.geometry, hit), as its coordinates.
IntersectionPoints(edge, hit) ==
    UNION {SegmentPoints(s[1], s[2], t[1], t[2]) : s \in Segments(edge), t \in Segments(hit)}

\* pygeos.predicates.covers(intersection, edge.geometry): the whole edge lies
\* on the hit.
CoversEdge(hit, edge) ==
    \A s \in Segments(edge) : \E t \in Segments(hit) :
        OnSegment(s[1], t[1], t[2]) /\ OnSegment(s[2], t[1], t[2])

\* Lines 1022-1035: the coordinates of the intersections of the edge at
\* position i with the rows that do not cover it (snap moves no point on the
\* grid).
split_points(edges, i) ==
    UNION {IntersectionPoints(edges[i], edges[j]) :
              j \in {k \in Rows(edges) : ~CoversEdge(edges[k], edges[i])}}

\* Line 1039: np.isin(coor_geom, split_points).all(axis=1).  isin tests each
\* number of coor_geom against all the numbers of split_points: a vertex is a
\* split location when its x and its y both occur among them.
split_locs(coor_geom, points) ==
    LET values == {q[1] : q \in points} \cup {q[2] : q \in points}
    IN  SortedSeq({k \in 1 .. Len(coor_geom) :
                      coor_geom[k][1] \in values /\ coor_geom[k][2] \in values})

\* Lines 1040-1044: one LineString between each two successive split locations.
new_edges(edges, i) ==
    LET coor_geom == get_coordinates(edges[i])
        locs      == split_locs(coor_geom, split_points(edges, i))
    IN  [n \in 1 .. (Len(locs) - 1) |->
            [osm_id |-> edges[i].osm_id,
             geometry |-> SubSeq(coor_geom, locs[n], locs[n + 1])]]

RECURSIVE grab_all_edges(_, _)
grab_all_edges(edges, i) ==
    IF i >= Size(edges) THEN <<>>
    ELSE new_edges(edges, i) \o grab_all_edges(edges, i + 1)

split_edges_at_nodes_pyg(network) ==
    Network(network.nodes, FromSeq(grab_all_edges(network.edges, 0)))

(***************************************************************************)
(* The pipeline simplify_network_from_gdf, from the edge table that        *)
(* clean_roundabouts and split_edges_at_nodes_pyg hand to add_endpoints.   *)
(***************************************************************************)
NoOutput == [bugs |-> -1, logic |-> "not run"]

\* The locals of clean_roundabouts before it runs.
NoRoundabouts ==
    [roundabouts |-> <<>>, k |-> 0, pending |-> {}, new_edge |-> <<>>,
     new_edge_id |-> <<>>, remove_edge |-> <<>>]

Init ==
    /\ pc = "add_endpoints"
    /\ net \in {Network(EmptyTable, e) : e \in InputEdges}
    /\ out = NoOutput
    /\ arg = NoNetwork
    /\ crIn = NoNetwork
    /\ cr = NoRoundabouts
    /\ splitIn = NoNetwork
    /\ resetIn = NoNetwork
    /\ topoIn = NoNetwork
    /\ dhnIn = NoNetwork
    /\ m2In = NoNetwork
    /\ nod = EmptyTable
    /\ edg = EmptyTable
    /\ n2 = {}
    /\ eIDtoRemove = <<>>
    /\ loc = NoLocals
    /\ last = "none"

m2vars == <<nod, edg, n2, eIDtoRemove, loc, last>>

frontvars == <<crIn, cr, splitIn>>

AddEndpoints ==
    /\ pc = "add_endpoints"
    /\ net' = add_endpoints(net)
    /\ arg' = net
    /\ pc' = "add_ids"
    /\ UNCHANGED <<out, frontvars, resetIn, topoIn, dhnIn, m2In, m2vars>>

AddIds ==
    /\ pc = "add_ids"
    /\ net' = add_ids(net)
    /\ arg' = net
    /\ pc' = "add_topology"
    /\ UNCHANGED <<out, frontvars, resetIn, topoIn, dhnIn, m2In, m2vars>>

AddTopology ==
    /\ pc = "add_topology"
    /\ \E from_ids \in IdLists(net, 0, 1), to_ids \in IdLists(net, 0, 2) :
          LET bugs == BugList(net.edges, from_ids, to_ids, 0)
          IN  /\ net' = Network(net.nodes, TopologyEdges(net.edges, from_ids, to_ids, bugs))
              /\ out' = [out EXCEPT !.bugs = TopologyReport(bugs)]
    /\ topoIn' = net
    /\ arg' = net
    /\ pc' = "drop_hanging_nodes"
    /\ UNCHANGED <<frontvars, resetIn, dhnIn, m2In, m2vars>>

DropHangingNodes ==
    /\ pc = "drop_hanging_nodes"
    /\ dhnIn' = net
    /\ IF DropHangingRaises(net)
       THEN pc' = "raised" /\ UNCHANGED <<net, arg>>
       ELSE /\ pc' = "merge_2"
            /\ net' = drop_hanging_nodes(net)
            /\ arg' = HangInputAfter(net)
    /\ UNCHANGED <<out, frontvars, resetIn, topoIn, m2In, m2vars>>

\* Lines 581-597.
Merge2Begin ==
    /\ pc = "merge_2"
    /\ m2In' = net
    /\ nod' = net.nodes
    /\ edg' = net.edges
    /\ n2' = Degree2Ids(net.nodes)
    /\ eIDtoRemove' = <<>>
    /\ loc' = NoLocals
    /\ last' = "none"
    /\ pc' = "m2_loop"
    /\ UNCHANGED <<net, out, arg, frontvars, resetIn, topoIn, dhnIn>>

\* Lines 601-629: pop a node, find its two edges and the two next nodes.
Merge2Pop ==
    /\ pc = "m2_loop"
    /\ \E nodeID \in n2 :
          LET eID == query(m2In.edges, nod[nodeID].geometry)
          IN  /\ n2' = n2 \ {nodeID}
              /\ IF Cardinality(eID) < 2
                 THEN /\ last' = "too few edges"
                      /\ loc' = NoLocals
                      /\ pc' = "m2_loop"
                 ELSE \E pr \in FirstEdges(eID, nod[nodeID].geometry, edg) :
                        LET nextNode1 == OtherEnd(edg[pr[1]], nodeID)
                            nextNode2 == OtherEnd(edg[pr[2]], nodeID)
                        IN  IF nextNode1 = nextNode2
                            THEN /\ last' = "same next node"
                                 /\ loc' = NoLocals
                                 /\ pc' = "m2_loop"
                            ELSE /\ last' = "walking"
                                 /\ loc' = [nodeID |-> nodeID,
                                            newEdge |-> <<pr[1], pr[2]>>,
                                            info_first_edge |-> edg[pr[1]].id,
                                            possibly_delete |-> <<edg[pr[2]].id>>,
                                            pos_0_deg |-> <<nodeID>>,
                                            nextNode1 |-> nextNode1,
                                            nextNode2 |-> nextNode2,
                                            edgePath1 |-> pr[1],
                                            edgePath2 |-> pr[2]]
                                 /\ pc' = "m2_walk1"
    /\ UNCHANGED <<net, out, arg, frontvars, resetIn, topoIn, dhnIn, m2In, nod, edg, eIDtoRemove>>

\* Lines 631-645: one turn of the first walk.
Merge2Walk1 ==
    /\ pc = "m2_walk1"
    /\ IF nod[loc.nextNode1].degree # 2 \/ loc.nextNode1 \in SeqToSet(loc.pos_0_deg)
       THEN pc' = "m2_walk2" /\ UNCHANGED <<loc, n2>>
       ELSE LET eID == query(m2In.edges, nod[loc.nextNode1].geometry) \ {edg[loc.edgePath1].id}
            IN  IF eID = {}
                THEN \* min() of an empty list raises; except: continue takes the
                     \* same turn of the while loop again, with nothing changed
                     UNCHANGED <<pc, loc, n2>>
                ELSE \E e \in NearestEdges(eID, nod[loc.nextNode2].geometry, edg) :
                        /\ loc' = [loc EXCEPT
                                     !.edgePath1 = e,
                                     !.pos_0_deg = Append(@, loc.nextNode1),
                                     !.nextNode1 = OtherEnd(edg[e], loc.nextNode1),
                                     !.newEdge = Append(@, e),
                                     !.possibly_delete = Append(@, edg[e].id)]
                        /\ n2' = n2 \ {loc.nextNode1}
                        /\ pc' = "m2_walk1"
    /\ UNCHANGED <<net, out, arg, frontvars, resetIn, topoIn, dhnIn, m2In, nod, edg, eIDtoRemove, last>>

\* Lines 647-660: one turn of the second walk.
Merge2Walk2 ==
    /\ pc = "m2_walk2"
    /\ IF nod[loc.nextNode2].degree # 2 \/ loc.nextNode2 \in SeqToSet(loc.pos_0_deg)
       THEN pc' = "m2_merge" /\ UNCHANGED <<loc, n2>>
       ELSE LET eID == query(m2In.edges, nod[loc.nextNode2].geometry) \ {edg[loc.edgePath2].id}
            IN  IF eID = {}
                THEN UNCHANGED <<pc, loc, n2>>
                ELSE \E e \in NearestEdges(eID, nod[loc.nextNode2].geometry, edg) :
                        /\ loc' = [loc EXCEPT
                                     !.edgePath2 = e,
                                     !.pos_0_deg = Append(@, loc.nextNode2),
                                     !.nextNode2 = OtherEnd(edg[e], loc.nextNode2),
                                     !.newEdge = Append(@, e),
                                     !.possibly_delete = Append(@, edg[e].id)]
                        /\ n2' = n2 \ {loc.nextNode2}
                        /\ pc' = "m2_walk2"
    /\ UNCHANGED <<net, out, arg, frontvars, resetIn, topoIn, dhnIn, m2In, nod, edg, eIDtoRemove, last>>

\* Lines 661-671: merge the geometries and, if they make one line, rewrite.
Merge2Merge ==
    /\ pc = "m2_merge"
    /\ LET r == MergeAttempt(edg, nod, eIDtoRemove, loc)
       IN  /\ edg' = r.edg
           /\ eIDtoRemove' = r.eIDtoRemove
           /\ nod' = r.nod
           /\ last' = IF r.merged THEN "merged" ELSE "not one line"
    /\ loc' = NoLocals
    /\ pc' = "m2_loop"
    /\ UNCHANGED <<net, out, arg, frontvars, resetIn, topoIn, dhnIn, m2In, n2>>

\* Lines 679-683, once n2 is empty.
Merge2Cleanup ==
    /\ pc = "m2_loop"
    /\ n2 = {}
    /\ net' = Network(CleanupNodes(nod), CleanupEdges(edg, eIDtoRemove))
    /\ arg' = m2In
    /\ pc' = "reset_ids"
    /\ UNCHANGED <<out, frontvars, resetIn, topoIn, dhnIn, m2In, m2vars>>

ResetIds ==
    /\ pc = "reset_ids"
    /\ net' = reset_ids(net)
    /\ resetIn' = net
    /\ arg' = net
    /\ pc' = "add_distances"
    /\ UNCHANGED <<out, frontvars, topoIn, dhnIn, m2In, m2vars>>

\* add_distances reads the first node's coordinates (line 470): IndexError on
\* an empty node table.  The distance column it adds is not modelled.
AddDistances ==
    /\ pc = "add_distances"
    /\ pc' = IF Size(net.nodes) = 0 THEN "raised" ELSE "merge_all_multi"
    /\ UNCHANGED <<net, out, arg, frontvars, resetIn, topoIn, dhnIn, m2In, m2vars>>

\* merge_all_multi: line_merge compares the integer type id with '5', so no
\* geometry is changed.
MergeAllMulti ==
    /\ pc = "merge_all_multi"
    /\ pc' = "logicCheck"
    /\ UNCHANGED <<net, out, arg, frontvars, resetIn, topoIn, dhnIn, m2In, m2vars>>

\* logicCheck prints what it finds and returns nothing; max() of an empty
\* column raises.
LogicCheck ==
    /\ pc = "logicCheck"
    /\ IF Size(net.edges) = 0
       THEN pc' = "raised" /\ UNCHANGED out
       ELSE /\ pc' = "quickFix"
            /\ out' = [out EXCEPT !.logic =
                          IF IndexOutOfRange(net) \/ DegreeMismatch(net)
                          THEN "inconsistent" ELSE "consistent"]
    /\ UNCHANGED <<net, arg, frontvars, resetIn, topoIn, dhnIn, m2In, m2vars>>

QuickFix ==
    /\ pc = "quickFix"
    /\ net' = quickFix(net)
    /\ pc' = "add_travel_time"
    /\ UNCHANGED <<out, arg, frontvars, resetIn, topoIn, dhnIn, m2In, m2vars>>

\* add_travel_time adds the columns distance and time; then the pipeline returns net.
AddTravelTime ==
    /\ pc = "add_travel_time"
    /\ pc' = "returned"
    /\ UNCHANGED <<net, out, arg, frontvars, resetIn, topoIn, dhnIn, m2In, m2vars>>

Next ==
    \/ AddEndpoints
    \/ AddIds
    \/ AddTopology
    \/ DropHangingNodes
    \/ Merge2Begin
    \/ Merge2Pop
    \/ Merge2Walk1
    \/ Merge2Walk2
    \/ Merge2Merge
    \/ Merge2Cleanup
    \/ ResetIds
    \/ AddDistances
    \/ MergeAllMulti
    \/ LogicCheck
    \/ QuickFix
    \/ AddTravelTime

Spec == Init /\ [][Next]_vars

\* The loop of merge_2 (lines 601-683).  The interpreter always runs its next
\* statement, so the loop goes on as long as one of its steps changes the state.
Merge2Loop == Merge2Pop \/ Merge2Walk1 \/ Merge2Walk2 \/ Merge2Merge \/ Merge2Cleanup

\* The pipeline on the smaller edge tables, for the properties of progress.
InitFair == Init /\ Size(net.edges) <= MaxFairEdges

FairSpec == InitFair /\ [][Next]_vars /\ WF_vars(Merge2Loop)

(***************************************************************************)
(* add_topology on its own: the caller's node table need not hold a node   *)
(* at every endpoint, and may hold several nodes at one point.  Nodes and   *)
(* edges carry the ids of add_ids.                                         *)
(***************************************************************************)
TopoPoints == {Pt(0, 1), Pt(2, 1), Pt(0, 0), Pt(1, 1)}

TopoNodeTables ==
    {add_ids(Network(FromSeq([i \in 1 .. Len(f) |-> [geometry |-> f[i]]]), EmptyTable)).nodes :
        f \in UNION {[1 .. n -> TopoPoints] : n \in 1 .. MaxTopoNodes}}

TopoEdgeTables ==
    {add_ids(Network(EmptyTable, e)).edges :
        e \in {t \in InputEdges : Size(t) <= MaxTopoEdges}}

InitTopology ==
    /\ pc = "add_topology"
    /\ net \in {Network(n, e) : n \in TopoNodeTables, e \in TopoEdgeTables}
    /\ out = NoOutput
    /\ arg = NoNetwork
    /\ crIn = NoNetwork
    /\ cr = NoRoundabouts
    /\ splitIn = NoNetwork
    /\ resetIn = NoNetwork
    /\ topoIn = NoNetwork
    /\ dhnIn = NoNetwork
    /\ m2In = NoNetwork
    /\ nod = EmptyTable
    /\ edg = EmptyTable
    /\ n2 = {}
    /\ eIDtoRemove = <<>>
    /\ loc = NoLocals
    /\ last = "none"

NextTopology == AddTopology

SpecTopology == InitTopology /\ [][NextTopology]_vars

(***************************************************************************)
(* clean_roundabouts on its own.  The edge table is a selection of at most *)
(* MaxRoundEdges of the lines below: three square rings (the third touches *)
(* the other two at a corner) and four open lines.  The osm_id is an       *)
(* attribute the caller supplies: nothing in clean_roundabouts makes it    *)
(* differ from row to row, and split_multilinestrings gives the rows of    *)
(* one parent the same osm_id.                                             *)
(***************************************************************************)
RoundLines ==
    << <<Pt(0, 0), Pt(2, 0), Pt(2, 2), Pt(0, 2), Pt(0, 0)>>,   \* ring, centre (1,1)
       <<Pt(4, 0), Pt(6, 0), Pt(6, 2), Pt(4, 2), Pt(4, 0)>>,   \* ring, centre (5,1)
       <<Pt(2, 2), Pt(4, 2), Pt(4, 4), Pt(2, 4), Pt(2, 2)>>,   \* ring, centre (3,3)
       <<Pt(2, 1), Pt(4, 1)>>,                                 \* from ring 1 to ring 2
       <<Pt(1, 2), Pt(1, 4)>>,                                 \* leaves ring 1
       <<Pt(0, 4), Pt(0, 2)>>,                                 \* arrives at ring 1
       <<Pt(5, 4), Pt(7, 4)>> >>                               \* touches no ring

\* The osm_id of a row: the number of its line, or SharedId when the row is one
\* of the several rows of one way.
SharedId == 0

RoundInputEdges ==
    UNION {{FromSeq([i \in 1 .. Len(SortedSeq(S)) |->
                        [osm_id |-> IF f[i] THEN SharedId ELSE SortedSeq(S)[i],
                         geometry |-> RoundLines[SortedSeq(S)[i]]]]) :
                f \in [1 .. Cardinality(S) -> BOOLEAN]} :
           S \in {T \in SUBSET (1 .. Len(RoundLines)) :
                     T # {} /\ Cardinality(T) <= MaxRoundEdges}}

\* Lines 383-392.
CleanBegin ==
    /\ pc = "clean_roundabouts"
    /\ crIn' = net
    /\ cr' = [NoRoundabouts EXCEPT !.roundabouts = find_roundabouts(net), !.k = 1]
    /\ pc' = "cr_roundabout"
    /\ UNCHANGED <<net, out, arg, splitIn, resetIn, topoIn, dhnIn, m2In, m2vars>>

\* Lines 394-402: the next roundabout, its removal and the rows it meets.
CleanRoundabout ==
    /\ pc = "cr_roundabout"
    /\ cr.k <= Len(cr.roundabouts)
    /\ LET r    == cr.roundabouts[cr.k]
           hits == edges_intersect(crIn.edges, r)
       IN  /\ cr' = [cr EXCEPT !.remove_edge = Append(@, r),
                               !.pending = hits,
                               !.k = IF hits = {} THEN @ + 1 ELSE @]
           /\ pc' = IF hits = {} THEN "cr_roundabout" ELSE "cr_edge"
    /\ UNCHANGED <<net, out, arg, crIn, splitIn, resetIn, topoIn, dhnIn, m2In, m2vars>>

\* Lines 404-446: one row that meets the roundabout, in the order of the index.
CleanEdge ==
    /\ pc = "cr_edge"
    /\ \E e \in cr.pending :
          LET c  == centroid(crIn.edges[cr.roundabouts[cr.k]].geometry)
              st == RoundaboutEdge(crIn.edges, c, cr, e)
          IN  /\ cr' = [st EXCEPT !.k = IF st.pending = {} THEN @ + 1 ELSE @]
              /\ pc' = IF st.pending = {} THEN "cr_roundabout" ELSE "cr_edge"
    /\ UNCHANGED <<net, out, arg, crIn, splitIn, resetIn, topoIn, dhnIn, m2In, m2vars>>

\* Lines 448-453, after the last roundabout.
CleanFinish ==
    /\ pc = "cr_roundabout"
    /\ cr.k > Len(cr.roundabouts)
    /\ net' = Network(crIn.nodes, RoundaboutTable(crIn.edges, cr))
    /\ arg' = crIn
    /\ pc' = "split_edges_at_nodes_pyg"
    /\ UNCHANGED <<out, frontvars, resetIn, topoIn, dhnIn, m2In, m2vars>>

InitRoundabouts ==
    /\ pc = "clean_roundabouts"
    /\ net \in {Network(EmptyTable, e) : e \in RoundInputEdges}
    /\ out = NoOutput
    /\ arg = NoNetwork
    /\ crIn = NoNetwork
    /\ cr = NoRoundabouts
    /\ splitIn = NoNetwork
    /\ resetIn = NoNetwork
    /\ topoIn = NoNetwork
    /\ dhnIn = NoNetwork
    /\ m2In = NoNetwork
    /\ nod = EmptyTable
    /\ edg = EmptyTable
    /\ n2 = {}
    /\ eIDtoRemove = <<>>
    /\ loc = NoLocals
    /\ last = "none"

NextRoundabouts == CleanBegin \/ CleanRoundabout \/ CleanEdge \/ CleanFinish

SpecRoundabouts == InitRoundabouts /\ [][NextRoundabouts]_vars

(***************************************************************************)
(* split_edges_at_nodes on its own.  The edges are a straight line and a   *)
(* line that turns back along itself; the node table is any sequence of at *)
(* most MaxSplitNodes different points of SplitPoints (hits come in the    *)
(* order of the index, here the order of the table).                       *)
(***************************************************************************)
SplitLines ==
    << <<Pt(0, 0), Pt(4, 0)>>,
       <<Pt(1, 1), Pt(4, 1), Pt(4, 2), Pt(0, 2)>> >>

SplitPoints ==
    {Pt(0, 0), Pt(1, 0), Pt(2, 0), Pt(3, 0),
     Pt(2, 1), Pt(3, 1), Pt(4, 1), Pt(3, 2), Pt(2, 2), Pt(1, 2), Pt(0, 2)}

SplitNodeTables ==
    {FromSeq([i \in 1 .. Len(f) |-> [geometry |-> f[i]]]) :
        f \in {g \in UNION {[1 .. n -> SplitPoints] : n \in 0 .. MaxSplitNodes} :
                  \A i, j \in 1 .. Len(g) : i # j => g[i] # g[j]}}

SplitEdgeTables ==
    {FromSeq([i \in 1 .. Len(SortedSeq(S)) |->
                 [osm_id |-> SortedSeq(S)[i], geometry |-> SplitLines[SortedSeq(S)[i]]]]) :
        S \in (SUBSET (1 .. Len(SplitLines))) \ {{}}}

SplitEdgesAtNodes ==
    /\ pc = "split_edges_at_nodes"
    /\ splitIn' = net
    /\ net' = split_edges_at_nodes(net)
    /\ arg' = net
    /\ pc' = "split_returned"
    /\ UNCHANGED <<out, crIn, cr, resetIn, topoIn, dhnIn, m2In, m2vars>>

InitSplit ==
    /\ pc = "split_edges_at_nodes"
    /\ net \in {Network(n, e) : n \in SplitNodeTables, e \in SplitEdgeTables}
    /\ out = NoOutput
    /\ arg = NoNetwork
    /\ crIn = NoNetwork
    /\ cr = NoRoundabouts
    /\ splitIn = NoNetwork
    /\ resetIn = NoNetwork
    /\ topoIn = NoNetwork
    /\ dhnIn = NoNetwork
    /\ m2In = NoNetwork
    /\ nod = EmptyTable
    /\ edg = EmptyTable
    /\ n2 = {}
    /\ eIDtoRemove = <<>>
    /\ loc = NoLocals
    /\ last = "none"

NextSplit == SplitEdgesAtNodes

SpecSplit == InitSplit /\ [][NextSplit]_vars

(***************************************************************************)
(* The front of the pipeline: split_edges_at_nodes_pyg and add_endpoints,  *)
(* from the table clean_roundabouts hands over (it holds no ring:          *)
(* clean_roundabouts keeps every row).  The table is a selection of at     *)
(* most MaxFrontEdges of the rows below: two MultiLineStrings, the first   *)
(* of two lines apart from each other, the second of two lines that meet,  *)
(* and LineStrings that end on them.                                       *)
(***************************************************************************)
FrontRows ==
    << [osm_id |-> 1, parts |-> <<2, 2>>,
        geometry |-> <<Pt(0, 0), Pt(1, 0), Pt(2, 0), Pt(3, 0)>>],
       [osm_id |-> 2, parts |-> <<2, 2>>,
        geometry |-> <<Pt(0, 2), Pt(1, 2), Pt(1, 2), Pt(3, 2)>>],
       [osm_id |-> 3, parts |-> <<2>>, geometry |-> <<Pt(0, 0), Pt(0, 2)>>],
       [osm_id |-> 4, parts |-> <<2>>, geometry |-> <<Pt(3, 0), Pt(3, 2)>>],
       [osm_id |-> 5, parts |-> <<2>>, geometry |-> <<Pt(1, 0), Pt(1, 2)>>],
       [osm_id |-> 6, parts |-> <<2>>, geometry |-> <<Pt(2, 0), Pt(2, 1)>>],
       [osm_id |-> 7, parts |-> <<2>>, geometry |-> <<Pt(2, 1), Pt(3, 1)>>] >>

FrontInputEdges ==
    {FromSeq([i \in 1 .. Len(SortedSeq(S)) |-> FrontRows[SortedSeq(S)[i]]]) :
        S \in {T \in SUBSET (1 .. Len(FrontRows)) : T # {} /\ Cardinality(T) <= MaxFrontEdges}}

SplitEdgesPyg ==
    /\ pc = "split_edges_at_nodes_pyg"
    /\ splitIn' = net
    /\ net' = split_edges_at_nodes_pyg(net)
    /\ arg' = net
    /\ pc' = "add_endpoints"
    /\ UNCHANGED <<out, crIn, cr, resetIn, topoIn, dhnIn, m2In, m2vars>>

InitFront ==
    /\ pc = "split_edges_at_nodes_pyg"
    /\ net \in {Network(EmptyTable, e) : e \in FrontInputEdges}
    /\ out = NoOutput
    /\ arg = NoNetwork
    /\ crIn = NoNetwork
    /\ cr = NoRoundabouts
    /\ splitIn = NoNetwork
    /\ resetIn = NoNetwork
    /\ topoIn = NoNetwork
    /\ dhnIn = NoNetwork
    /\ m2In = NoNetwork
    /\ nod = EmptyTable
    /\ edg = EmptyTable
    /\ n2 = {}
    /\ eIDtoRemove = <<>>
    /\ loc = NoLocals
    /\ last = "none"

NextFront == SplitEdgesPyg \/ AddEndpoints

SpecFront == InitFront /\ [][NextFront]_vars

(***************************************************************************)
(* drop_hanging_nodes on its own, called on a network whose node table     *)
(* already has a degree column: the network add_endpoints, add_ids and     *)
(* add_topology build from at most MaxHangEdges of the lines, after        *)
(* add_degree.                                                             *)
(***************************************************************************)
WithTopology(e) ==
    LET n        == add_ids(add_endpoints(Network(EmptyTable, e)))
        from_ids == CHOOSE f \in IdLists(n, 0, 1) : TRUE
        to_ids   == CHOOSE f \in IdLists(n, 0, 2) : TRUE
    IN  Network(n.nodes, TopologyEdges(n.edges, from_ids, to_ids, <<>>))

HangingInputs ==
    {add_degree(WithTopology(e)) : e \in {t \in InputEdges : Size(t) <= MaxHangEdges}}

InitHanging ==
    /\ pc = "drop_hanging_nodes"
    /\ net \in HangingInputs
    /\ out = NoOutput
    /\ arg = NoNetwork
    /\ crIn = NoNetwork
    /\ cr = NoRoundabouts
    /\ splitIn = NoNetwork
    /\ resetIn = NoNetwork
    /\ topoIn = NoNetwork
    /\ dhnIn = NoNetwork
    /\ m2In = NoNetwork
    /\ nod = EmptyTable
    /\ edg = EmptyTable
    /\ n2 = {}
    /\ eIDtoRemove = <<>>
    /\ loc = NoLocals
    /\ last = "none"

NextHanging == DropHangingNodes

SpecHanging == InitHanging /\ [][NextHanging]_vars

(***************************************************************************)
(* Properties of add_topology (checked on SpecTopology).                   *)
(***************************************************************************)
\* The ids of the nodes located at point p.
IdsAt(nodes, p) == {nodes[j].id : j \in {k \in Rows(nodes) : nodes[k].geometry = p}}

\* The edge at position i of the network has an endpoint with no node at it.
IsDefective(network, i) ==
    \/ IdsAt(network.nodes, network.edges[i].geometry[1]) = {}
    \/ IdsAt(network.nodes, network.edges[i].geometry[Len(network.edges[i].geometry)]) = {}

DefectiveEdges(network) == {i \in Rows(network.edges) : IsDefective(network, i)}

\* C7: after add_topology every surviving edge has as from_id the id of a node
\* located at its first vertex and as to_id the id of a node located at its
\* last vertex (so never -1), every edge with an endpoint that resolves to no
\* node is absent from the output, and the node table is the input's.
C7_TopologyValid ==
    pc = "drop_hanging_nodes" =>
        /\ net.nodes = topoIn.nodes
        /\ \A i \in Rows(net.edges) :
              /\ net.edges[i].from_id \in IdsAt(net.nodes, net.edges[i].geometry[1])
              /\ net.edges[i].to_id \in
                    IdsAt(net.nodes, net.edges[i].geometry[Len(net.edges[i].geometry)])
              /\ net.edges[i].from_id # -1
              /\ net.edges[i].to_id # -1
        /\ \A i \in DefectiveEdges(topoIn) :
              \A j \in Rows(net.edges) : net.edges[j].id # topoIn.edges[i].id

\* add_topology has run on a table with a defective edge and a sound one, and
\* several nodes lie at an endpoint of the sound one.
C7_Witness ==
    /\ pc = "drop_hanging_nodes"
    /\ DefectiveEdges(topoIn) # {}
    /\ Size(net.edges) > 0
    /\ \E i \in Rows(net.edges) :
          Cardinality(IdsAt(net.nodes, net.edges[i].geometry[1])) > 1

\* C8: the count add_topology reports is the number of defective edges (the
\* distinct edges with an endpoint that resolves to no node), which is the
\* number of edges it drops.
C8_ReportCountsEdges ==
    pc = "drop_hanging_nodes" =>
        /\ out.bugs = Cardinality(DefectiveEdges(topoIn))
        /\ out.bugs = Size(topoIn.edges) - Size(net.edges)

(***************************************************************************)
(* Properties of the pipeline (checked on Spec).                           *)
(***************************************************************************)
\* The number of edge endpoints (from_id and to_id) that reference node id k.
EndpointCount(edges, k) ==
    Cardinality({i \in Rows(edges) : edges[i].from_id = k}) +
    Cardinality({i \in Rows(edges) : edges[i].to_id = k})

\* The edges merge_2 returned, before reset_ids and quickFix.
Merge2Edges == CleanupEdges(edg, eIDtoRemove)

\* C1: in the network the pipeline returns, every edge's from_id and to_id are
\* ids of nodes of the returned node table.
C1_EndpointsPresent ==
    pc = "returned" =>
        \A i \in Rows(net.edges) :
            /\ net.edges[i].from_id \in NodeIds(net.nodes)
            /\ net.edges[i].to_id \in NodeIds(net.nodes)

\* The pipeline has returned edges after merge_2 contracted nodes away and
\* quickFix removed an edge that reset_ids left with an id out of range.
C1_Witness ==
    /\ pc = "returned"
    /\ Size(net.edges) > 0
    /\ Size(net.nodes) < Size(m2In.nodes)
    /\ Size(net.edges) < Size(Merge2Edges)

\* C2: in the network the pipeline returns, the degree stored with a node is
\* the number of endpoints of returned edges that reference the node.
C2_DegreeMatchesEdges ==
    pc = "returned" =>
        \A k \in Rows(net.nodes) :
            net.nodes[k].degree = EndpointCount(net.edges, net.nodes[k].id)

\* C6: when logicCheck has found an inconsistency (stored degrees that differ
\* from the recomputed ones, or an endpoint id beyond the largest node id) the
\* pipeline does not return a network.
C6_InconsistencyStopsRun ==
    out.logic = "inconsistent" => pc # "returned"

(***************************************************************************)
(* Properties of drop_hanging_nodes (checked on Spec: dhnIn is the network *)
(* it was given, net at "merge_2" the network it returned).                *)
(***************************************************************************)
\* The input edges (positions in dhnIn.edges) that are not in the output.
DroppedEdges ==
    {i \in Rows(dhnIn.edges) :
        \A j \in Rows(net.edges) : net.edges[j].osm_id # dhnIn.edges[i].osm_id}

\* The short edges of the input that are incident to a node of degree 1.
ShortHangingEdges ==
    {i \in Rows(dhnIn.edges) :
        /\ LengthBelow(dhnIn.edges[i].geometry, tolerance)
        /\ \/ EndpointCount(dhnIn.edges, dhnIn.edges[i].from_id) = 1
           \/ EndpointCount(dhnIn.edges, dhnIn.edges[i].to_id) = 1}

\* C9: an edge shorter than the tolerance that is incident to a node of degree 1
\* is dropped by drop_hanging_nodes; the degree of that node becomes 0 and the
\* degree of the other endpoint decreases by one for each such edge dropped at
\* it; the node is still in the output of drop_hanging_nodes, and the cleanup
\* of merge_2 removes it.
C9_ShortHangingEdgeDropped ==
    /\ pc = "merge_2" =>
          \A i \in ShortHangingEdges :
             LET e == dhnIn.edges[i]
             IN  /\ i \in DroppedEdges
                 /\ Size(net.nodes) = Size(dhnIn.nodes)
                 /\ \A v \in {e.from_id, e.to_id} :
                       IF EndpointCount(dhnIn.edges, v) = 1
                       THEN net.nodes[v].degree = 0
                       ELSE net.nodes[v].degree =
                              EndpointCount(dhnIn.edges, v) -
                              Cardinality({j \in DroppedEdges : dhnIn.edges[j].from_id = v}) -
                              Cardinality({j \in DroppedEdges : dhnIn.edges[j].to_id = v})
    /\ pc = "reset_ids" =>
          \A i \in ShortHangingEdges :
             \A v \in {dhnIn.edges[i].from_id, dhnIn.edges[i].to_id} :
                EndpointCount(dhnIn.edges, v) = 1 => v \notin NodeIds(net.nodes)

\* C10: after drop_hanging_nodes the degree written for a node is the number of
\* endpoints of surviving edges that reference it, so no degree is negative and
\* the degrees sum to twice the number of surviving edges.
C10_DegreesMatchSurvivors ==
    pc = "merge_2" =>
        /\ \A k \in Rows(net.nodes) :
              /\ net.nodes[k].degree = EndpointCount(net.edges, net.nodes[k].id)
              /\ net.nodes[k].degree >= 0
        /\ SumSeq(Column(net.nodes, "degree")) = 2 * Size(net.edges)

(***************************************************************************)
(* Properties of merge_2 (checked on Spec: m2In is the network it was      *)
(* given, net at "reset_ids" the network it returned).                     *)
(***************************************************************************)
\* The positions of the edges of the network that reference node id v.
IncidentEdges(network, v) ==
    {i \in Rows(network.edges) :
        network.edges[i].from_id = v \/ network.edges[i].to_id = v}

\* Follow the edges from node cur along edge e through nodes of degree 2, to the
\* first node of another degree; ok is FALSE when the way comes back on itself.
RECURSIVE ChainWalk(_, _, _, _)
ChainWalk(network, cur, e, seen) ==
    LET w == OtherEnd(network.edges[e], cur)
    IN  IF w \in seen \/ w \notin Rows(network.nodes)
        THEN [ok |-> FALSE, end |-> w, edges |-> {e}, inner |-> {}]
        ELSE IF network.nodes[w].degree # 2
        THEN [ok |-> TRUE, end |-> w, edges |-> {e}, inner |-> {}]
        ELSE IF Cardinality(IncidentEdges(network, w)) # 2
        THEN [ok |-> FALSE, end |-> w, edges |-> {e}, inner |-> {}]
        ELSE LET e2 == CHOOSE x \in IncidentEdges(network, w) \ {e} : TRUE
                 r  == ChainWalk(network, w, e2, seen \cup {w})
             IN  [ok |-> r.ok, end |-> r.end, edges |-> r.edges \cup {e},
                  inner |-> r.inner \cup {w}]

\* The simple paths of the network whose interior nodes all have degree 2 and
\* whose two end nodes have another degree: the end nodes, the edges and the
\* interior nodes of each.
Chains(network) ==
    {c \in {LET inc == IncidentEdges(network, v)
                e1  == CHOOSE x \in inc : TRUE
                a   == ChainWalk(network, v, e1, {v})
                b   == ChainWalk(network, v, CHOOSE x \in inc : x # e1, {v})
            IN  [ok |-> a.ok /\ b.ok /\ a.end # b.end,
                 ends |-> {a.end, b.end},
                 edges |-> a.edges \cup b.edges,
                 inner |-> a.inner \cup b.inner \cup {v}] :
            v \in {k \in Rows(network.nodes) :
                      /\ network.nodes[k].degree = 2
                      /\ Cardinality(IncidentEdges(network, k)) = 2}} : c.ok}

\* C3: for every such path merge_2 returns exactly one of the path's edges, with
\* the two end nodes as its from_id and to_id, and none of the interior nodes.
C3_ChainContracted ==
    pc = "reset_ids" =>
        \A c \in Chains(m2In) :
            LET ids  == {m2In.edges[i].id : i \in c.edges}
                surv == {j \in Rows(net.edges) : net.edges[j].id \in ids}
            IN  /\ Cardinality(surv) = 1
                /\ \A j \in surv : {net.edges[j].from_id, net.edges[j].to_id} = c.ends
                /\ c.inner \cap NodeIds(net.nodes) = {}

\* C4: merge_2 terminates: once the loop over the pending set n2 has begun, the
\* cleanup is reached and merge_2 returns.
C4_Merge2Terminates == (pc = "m2_loop") ~> (pc = "reset_ids")

\* C5: a step of merge_2 that is not the rewrite at the end of a successful
\* attempt (so every step of an attempt that is aborted because fewer than two
\* edges are found, because both edges lead to the same next node, or because
\* the merged geometry is not one line) rewrites no edge, adds no edge to the
\* removal list and sets no degree to 0.
C5_AbortChangesNothing ==
    [][(/\ pc \in {"m2_loop", "m2_walk1", "m2_walk2", "m2_merge"}
        /\ ~(pc = "m2_merge" /\ last' = "merged"))
       => (edg' = edg /\ eIDtoRemove' = eIDtoRemove /\ nod' = nod)]_vars

\* An attempt has walked and was aborted because its geometries do not merge to
\* one line, after an earlier attempt had rewritten an edge.
C5_Witness ==
    /\ pc = "m2_loop"
    /\ last = "not one line"
    /\ eIDtoRemove # <<>>

(***************************************************************************)
(* Properties of clean_roundabouts (checked on SpecRoundabouts).           *)
(***************************************************************************)
\* The rows of the table given to clean_roundabouts that are rings.
RingRows == {i \in Rows(crIn.edges) : is_ring(crIn.edges[i].geometry)}

\* The rings that meet row t.
RingsAt(t) == {r \in RingRows \ {t} : LinesMeet(crIn.edges[r].geometry, crIn.edges[t].geometry)}

\* The rows of the output whose geometry is g.
OutputRows(g) == {i \in Rows(net.edges) : net.edges[i].geometry = g}

\* The line g with the point c joined to its end closer to c (to either end
\* when neither is closer).
Spliced(g, c) ==
    {h \in {<<c>> \o g, Append(g, c)} :
        IF h[1] = c /\ h # Append(g, c)
        THEN Dist2(g[1], c) <= Dist2(g[Len(g)], c)
        ELSE Dist2(g[Len(g)], c) <= Dist2(g[1], c)}

\* The line g holds the vertices of h, in order and next to each other.
HoldsLine(g, h) ==
    \E a \in 0 .. (Len(g) - Len(h)) : SubSeq(g, a + 1, a + Len(h)) = h

\* C11: when the input holds one ring and exactly two other edges meet it, the
\* output of clean_roundabouts holds no row with the ring's geometry, exactly
\* two rows whose geometry is not an input geometry, one for each of the two
\* edges and made of that edge's coordinates with the ring's centroid joined to
\* the end closer to it, and no row with the geometry of either edge.
C11_RingWithTwoEdges ==
    (/\ pc = "split_edges_at_nodes_pyg"
     /\ Cardinality(RingRows) = 1
     /\ \A r \in RingRows : Cardinality(edges_intersect(crIn.edges, r)) = 2)
    => \A r \in RingRows :
          LET c == centroid(crIn.edges[r].geometry)
          IN  /\ OutputRows(crIn.edges[r].geometry) = {}
              /\ Cardinality({i \in Rows(net.edges) :
                     \A j \in Rows(crIn.edges) :
                        net.edges[i].geometry # crIn.edges[j].geometry}) = 2
              /\ \A t \in edges_intersect(crIn.edges, r) :
                    /\ Cardinality(UNION {OutputRows(h) : h \in Spliced(crIn.edges[t].geometry, c)}) = 1
                    /\ OutputRows(crIn.edges[t].geometry) = {}

\* The geometries an edge met by the rings r1 and r2 may have after both
\* replacements: the second made from the first.
TwiceSpliced(g, r1, r2) ==
    LET c1 == centroid(crIn.edges[r1].geometry)
        c2 == centroid(crIn.edges[r2].geometry)
    IN  UNION {Spliced(h, c2) : h \in Spliced(g, c1)} \cup
        UNION {Spliced(h, c1) : h \in Spliced(g, c2)}

\* C12: an edge (not itself a ring) met by exactly two roundabouts has exactly
\* one replacement in the output, made from its first replacement and holding
\* both centroids; neither its original geometry nor its first replacement is
\* in the output.  The replacement of an edge is superseded only by a later
\* replacement of that same edge.
C12_SecondSupersedesFirst ==
    pc = "split_edges_at_nodes_pyg" =>
        \A t \in Rows(crIn.edges) \ RingRows :
            \A r1, r2 \in RingsAt(t) :
                (r1 < r2 /\ RingsAt(t) = {r1, r2}) =>
                    LET g == crIn.edges[t].geometry
                    IN  /\ Cardinality(UNION {OutputRows(h) : h \in TwiceSpliced(g, r1, r2)}) = 1
                        /\ OutputRows(g) = {}
                        /\ \A r \in {r1, r2} :
                              \A h \in Spliced(g, centroid(crIn.edges[r].geometry)) :
                                 OutputRows(h) = {}

\* C13: the output of clean_roundabouts holds no row made of an input ring,
\* neither with the ring's geometry nor with the ring's vertices and a centroid
\* joined to them, and no row with the geometry of an input edge that met a
\* ring; also when two rings meet each other.
C13_NoRoundaboutSurvives ==
    pc = "split_edges_at_nodes_pyg" =>
        /\ \A r \in RingRows : \A i \in Rows(net.edges) :
              ~HoldsLine(net.edges[i].geometry, crIn.edges[r].geometry)
        /\ \A t \in Rows(crIn.edges) :
              RingsAt(t) # {} => OutputRows(crIn.edges[t].geometry) = {}

(***************************************************************************)
(* Properties of split_edges_at_nodes (checked on SpecSplit).              *)
(***************************************************************************)
\* The points of the node table that lie on the line and at neither of its ends.
MidLineNodes(line) ==
    {q \in {splitIn.nodes[k].geometry : k \in Rows(splitIn.nodes)} :
        intersects(q, line) /\ q \notin {line[1], line[Len(line)]}}

\* The points of P strictly inside the segment a-b, from a to b.
RECURSIVE AlongSegment(_, _, _)
AlongSegment(P, a, b) ==
    LET in == {q \in P : OnSegment(q, a, b) /\ q # a /\ q # b}
    IN  IF in = {} THEN <<>>
        ELSE LET f == CHOOSE q \in in : \A r \in in : Dist2(q, a) <= Dist2(r, a)
             IN  <<f>> \o AlongSegment(P \ {f}, a, b)

\* The vertices of the line with the points of P put in at their places along it.
RECURSIVE WithPoints(_, _, _)
WithPoints(line, P, k) ==
    IF k >= Len(line) THEN <<line[Len(line)]>>
    ELSE <<line[k]>> \o AlongSegment(P, line[k], line[k + 1]) \o WithPoints(line, P, k + 1)

\* The line w cut at its inner vertices that are points of P.
RECURSIVE CutAt(_, _, _, _)
CutAt(w, P, from, i) ==
    IF i >= Len(w) THEN <<SubSeq(w, from, Len(w))>>
    ELSE IF w[i] \in P THEN <<SubSeq(w, from, i)>> \o CutAt(w, P, i, i + 1)
    ELSE CutAt(w, P, from, i + 1)

\* The geometries of the output rows that carry the osm_id, in row order.
PiecesOf(osm_id) ==
    LET rows == SortedSeq({i \in Rows(net.edges) : net.edges[i].osm_id = osm_id})
    IN  [i \in 1 .. Len(rows) |-> net.edges[rows[i]].geometry]

\* C14: an edge with exactly two nodes mid-line (on the line, at different
\* places, neither at an end of the line) is split by split_edges_at_nodes
\* into exactly three edges; their vertex sequences, one after the other, are
\* the edge's vertices with the two node points put in at their places along
\* the line, whatever the order in which the two points are processed.
C14_SplitAtTwoNodes ==
    pc = "split_returned" =>
        \A i \in Rows(splitIn.edges) :
            LET line == splitIn.edges[i].geometry
                P    == MidLineNodes(line)
            IN  Cardinality(P) = 2 =>
                   /\ Len(PiecesOf(splitIn.edges[i].osm_id)) = 3
                   /\ PiecesOf(splitIn.edges[i].osm_id) =
                         CutAt(WithPoints(line, P, 1), P, 1, 2)

(***************************************************************************)
(* Properties of the front of the pipeline (checked on SpecFront).         *)
(***************************************************************************)
\* The rows of the table given to split_edges_at_nodes_pyg that are multi-part.
MultiPartRows == {i \in Rows(splitIn.edges) : Len(geoms(splitIn.edges[i])) > 1}

\* C15: when add_endpoints is about to compute the endpoints, and after it has,
\* the edge table holds, for every multi-part edge of the input, exactly one
\* edge for each of its lines, with that line as geometry and the parent's
\* osm_id, and no other edge made from it.
C15_MultiPartDecomposed ==
    pc \in {"add_endpoints", "add_ids"} =>
        \A i \in MultiPartRows :
            LET parent == splitIn.edges[i]
                made   == {j \in Rows(net.edges) : net.edges[j].osm_id = parent.osm_id}
            IN  /\ \A n \in 1 .. Len(geoms(parent)) :
                      Cardinality({j \in made : net.edges[j].geometry = geoms(parent)[n]}) = 1
                /\ Cardinality(made) = Len(geoms(parent))

(***************************************************************************)
(* Properties of reset_ids and of merge_2 on a contracted graph (checked   *)
(* on Spec).                                                               *)
(***************************************************************************)
\* The rows of the node table given to reset_ids whose id is x.
NodesWithId(x) == {k \in Rows(resetIn.nodes) : resetIn.nodes[k].id = x}

RowSet(t) == {t[i] : i \in Rows(t)}

\* C17 as stated: merge_2 on a graph in which no node has degree 2 returns the
\* same edge set and the same node set.
C17_ContractedUnchanged ==
    (pc = "reset_ids" /\ Degree2Ids(m2In.nodes) = {}) =>
        /\ RowSet(net.edges) = RowSet(m2In.edges)
        /\ RowSet(net.nodes) = RowSet(m2In.nodes)

\* C17, amended: merge_2 on a graph in which no node has degree 2 and every
\* node has a degree above 0 returns the same edge table and the same node
\* table.
C17_ContractedPositiveUnchanged ==
    (/\ pc = "reset_ids"
     /\ Degree2Ids(m2In.nodes) = {}
     /\ \A k \in Rows(m2In.nodes) : m2In.nodes[k].degree > 0)
    => net = m2In

\* merge_2 has returned from a graph with edges, no node of degree 2 and no
\* node of degree 0.
C17_Witness ==
    /\ pc = "reset_ids"
    /\ Degree2Ids(m2In.nodes) = {}
    /\ \A k \in Rows(m2In.nodes) : m2In.nodes[k].degree > 0
    /\ Size(m2In.edges) > 1

(***************************************************************************)
(* The stages and the Network they are given.                              *)
(***************************************************************************)
\* C18: when a stage (clean_roundabouts, split_edges_at_nodes_pyg,
\* add_endpoints, add_ids, add_topology, drop_hanging_nodes, merge_2,
\* reset_ids) returns, the Network it was given holds the tables it held when
\* the stage was called; so the degrees of the input's node table are the same
\* after drop_hanging_nodes and after merge_2, with a degree column in the
\* input or without.
C18_StagesLeaveInputUnchanged ==
    [][(/\ pc' # pc
        /\ pc' \in {"split_edges_at_nodes_pyg", "add_endpoints", "add_ids", "add_topology",
                    "drop_hanging_nodes", "merge_2", "reset_ids", "add_distances"})
       => arg' = net]_vars

(***************************************************************************)
(* Properties of the cleanup of merge_2 (checked on Spec: nod, edg and     *)
(* eIDtoRemove are what the loop left, net at "reset_ids" the network      *)
(* merge_2 returned).                                                      *)
(***************************************************************************)
\* The rows of edg that a successful merge has rewritten: the representative edges.
RewrittenEdges == {i \in Rows(edg) : edg[i] # m2In.edges[i]}

EdgeIds(edges) == {edges[i].id : i \in Rows(edges)}

\* C19: the network merge_2 returns lacks exactly the edges whose id a
\* successful merge put on the removal list, holds every edge a merge has
\* rewritten, lacks exactly the nodes whose degree is 0, and has the node ids
\* 0..n-1 and the edge ids 0..m-1, in row order.
C19_CleanupExact ==
    pc = "reset_ids" =>
        /\ EdgeIds(edg) \ EdgeIds(net.edges) = SeqToSet(eIDtoRemove)
        /\ \A i \in RewrittenEdges : edg[i].id \in EdgeIds(net.edges)
        /\ NodeIds(nod) \ NodeIds(net.nodes) =
              {nod[k].id : k \in {j \in Rows(nod) : nod[j].degree = 0}}
        /\ \A k \in Rows(net.nodes) : net.nodes[k].id = k
        /\ \A i \in Rows(net.edges) : net.edges[i].id = i

(***************************************************************************)
(* Properties of the pass of drop_hanging_nodes (checked on Spec).         *)
(***************************************************************************)
\* The positions of the edges the loop examines, in order (degEd).
Examined == degEd(dhnIn.edges, hangNodes(HangDegree(dhnIn)), 0)

\* The edges with an endpoint at a node of initial degree 1.
HangingIncident ==
    {i \in Rows(dhnIn.edges) :
        \/ HangDegree(dhnIn)[dhnIn.edges[i].from_id] = 1
        \/ HangDegree(dhnIn)[dhnIn.edges[i].to_id] = 1}

\* The live degrees when the k-th edge of the pass is examined.
LiveDegree(k) ==
    HangLoop(dhnIn.edges, SubSeq(Examined, 1, k - 1), 1,
             [drop |-> <<>>, deg |-> HangDegree(dhnIn)]).deg

\* C20: drop_hanging_nodes examines each edge with an endpoint of initial
\* degree 1 exactly once, and no other edge; an edge it drops is, when
\* examined, shorter than the tolerance or has both endpoints of live degree
\* 1; and the degree written for a node is its initial degree less one for
\* every endpoint of a dropped edge at it.
C20_SinglePass ==
    pc = "merge_2" =>
        /\ SeqToSet(Examined) = HangingIncident
        /\ \A i \in HangingIncident :
              Cardinality({k \in 1 .. Len(Examined) : Examined[k] = i}) = 1
        /\ \A i \in DroppedEdges :
              \E k \in 1 .. Len(Examined) :
                 /\ Examined[k] = i
                 /\ \/ LengthBelow(dhnIn.edges[i].geometry, tolerance)
                    \/ /\ LiveDegree(k)[dhnIn.edges[i].from_id] = 1
                       /\ LiveDegree(k)[dhnIn.edges[i].to_id] = 1
        /\ \A v \in Rows(net.nodes) :
              net.nodes[v].degree =
                 HangDegree(dhnIn)[v]
                 - Cardinality({i \in DroppedEdges : dhnIn.edges[i].from_id = v})
                 - Cardinality({i \in DroppedEdges : dhnIn.edges[i].to_id = v})

(***************************************************************************)
(* Properties of the contraction attempts of merge_2 (checked on Spec: at  *)
(* "m2_walk1", "m2_walk2" and "m2_merge" loc holds the locals of the       *)
(* attempt in progress, edg and eIDtoRemove what the earlier attempts      *)
(* left).                                                                  *)
(***************************************************************************)
\* The ids of the edges that the successful merges so far have put on the
\* removal list or have rewritten.
MarkedOrRewritten == SeqToSet(eIDtoRemove) \cup {edg[i].id : i \in RewrittenEdges}

\* C21: no contraction attempt of merge_2 selects, as its first edge, its
\* second edge or a step of a walk, an edge that an earlier successful merge
\* of the same run has put on the removal list or has rewritten.
C21_NoStaleEdgeSelected ==
    pc \in {"m2_walk1", "m2_walk2", "m2_merge"} =>
        {edg[i].id : i \in SeqToSet(loc.newEdge)} \cap MarkedOrRewritten = {}

\* The sequence s holds no value twice.
NoDuplicate(s) == \A i, j \in 1 .. Len(s) : s[i] = s[j] => i = j

\* C22: within one contraction attempt of merge_2 the list newEdge holds each
\* edge at most once, the list possibly_delete holds no id twice and never
\* holds the id of the representative first edge; also when the walk runs
\* around a cycle of nodes of degree 2 and is stopped by the test on the
\* visited nodes (pos_0_deg).
C22_NoEdgeTraversedTwice ==
    pc \in {"m2_walk1", "m2_walk2", "m2_merge"} =>
        /\ NoDuplicate(loc.newEdge)
        /\ NoDuplicate(loc.possibly_delete)
        /\ loc.info_first_edge \notin SeqToSet(loc.possibly_delete)

(***************************************************************************)
(* merge_2 and the order of the pops (checked on Spec).  Merge2LeastRun    *)
(* is one of the runs of merge_2 on its input; the runs of Spec take every *)
(* pop order and every choice of the first edge.  All runs of an input     *)
(* agree exactly when each of them agrees with that one.                   *)
(***************************************************************************)
\* The multiset of the unordered pairs {from_id, to_id} of an edge table.
EndpointPairs(edges) ==
    [p \in {{edges[i].from_id, edges[i].to_id} : i \in Rows(edges)} |->
        Cardinality({i \in Rows(edges) : {edges[i].from_id, edges[i].to_id} = p})]

\* What C23 compares of a network: the node ids and the endpoint pairs.
Outcome(network) ==
    [nodes |-> NodeIds(network.nodes), pairs |-> EndpointPairs(network.edges)]

\* C23: whatever the order in which the nodes are popped from n2 and whichever
\* of a node's edges is taken first, merge_2 returns the same set of nodes and
\* the same multiset of unordered {from_id, to_id} pairs of edges for the same
\* input: every run that returns agrees with the run that always pops the
\* least id.
C23_PopOrderIndependent ==
    (pc = "reset_ids" /\ Merge2LeastRun(m2In).returns) =>
        Outcome(net) = Outcome(Merge2LeastRun(m2In).network)

(***************************************************************************)
(* Properties of split_edges_at_nodes_pyg (checked on SpecFront: splitIn   *)
(* is the network it was given, net at "add_endpoints" the network it      *)
(* returned).                                                              *)
(***************************************************************************)
\* The rows of the input that are LineStrings.
SingleLineRows == {i \in Rows(splitIn.edges) : Len(geoms(splitIn.edges[i])) = 1}

\* The output edges made from the input row i, in row order.
PygPieces(i) ==
    SelectSeq(ToSeq(net.edges), LAMBDA r : r.osm_id = splitIn.edges[i].osm_id)

\* The pieces, each beginning at the vertex where the one before ends, joined.
RECURSIVE JoinPieces(_)
JoinPieces(pieces) ==
    IF Len(pieces) = 1 THEN pieces[1].geometry
    ELSE pieces[1].geometry \o Tail(JoinPieces(Tail(pieces)))

\* The pieces are at least one and cover the line from its first vertex to its
\* last, in order.
CoverLine(pieces, line) ==
    /\ pieces # <<>>
    /\ \A n \in 1 .. (Len(pieces) - 1) :
          pieces[n].geometry[Len(pieces[n].geometry)] = pieces[n + 1].geometry[1]
    /\ JoinPieces(pieces) = line

\* C24: split_edges_at_nodes_pyg loses no edge and no part of an edge: every
\* LineString of the input yields at least one output edge, and its output
\* edges, in order, cover its vertex sequence from the first vertex to the
\* last; whether it meets no other edge, meets other edges at fewer than two
\* of its vertices, or has a first or last vertex that is no intersection
\* point.
C24_SplitLosesNothing ==
    pc = "add_endpoints" =>
        \A i \in SingleLineRows : CoverLine(PygPieces(i), splitIn.edges[i].geometry)

=============================================================================
